---- MODULE Spec2Model ----
(***************************************************************************)
(* Model of the flexcore event ports (src/src/ports/event_ports.hpp) and   *)
(* of the list nodes built on them (src/src/nodes/list_manipulation.hpp).  *)
(*                                                                         *)
(* An event is a range (a finite sequence of small integers), the payload  *)
(* type of list_splitter and list_collector.  The shared handler vectors   *)
(* of all event_out_port objects live in one heap, event_handlers; a port  *)
(* value is a pointer into that heap.                                      *)
(*                                                                         *)
(* Further parts: merge_node (src/src/nodes/state_nodes.hpp), the          *)
(* ownership tree (src/flexcore/extended/base_node.hpp) and the periodic   *)
(* scheduler as the tests use it                                           *)
(* (src/tests/threading/test_parallelscheduler.cpp).                       *)
(***************************************************************************)
EXTENDS Integers, Sequences, FiniteSets, TLC

\* ------------------------------------------------------------------ bounds
MaxLen == 2           \* longest range fired or received
MaxWiring == 4        \* copies + proxies + registrations made on a free-standing source
MaxOutputs == 2       \* output ports created on the splitter
MaxSinks == 1         \* handlers connected to one splitter output
MaxOps == 3           \* receives + pulls on the collector
MaxDropped == 2       \* cap of the drop counter
MaxNested == 2        \* handlers connected to the source that feeds the splitter
MaxArity == 2         \* largest number of inputs of a merge_node
MaxNodes == 4         \* nodes the forest allocates in one run, the root included
MaxTasks == 3         \* periodic tasks added to one cycle_control
MaxCycles == 2        \* cycles one cycle_control runs
MaxHosts == 3         \* nodes the forest allocates when its nodes carry sinks, the root included

Elems == {0, 1, 2}
Keys == Elems

RECURSIVE SeqsUpTo(_, _)
SeqsUpTo(S, n) ==
  IF n = 0 THEN {<<>>}
  ELSE LET shorter == SeqsUpTo(S, n - 1)
       IN  shorter \cup {Append(s, x) : s \in {t \in shorter : Len(t) = n - 1}, x \in S}

\* what the splitter's input is fired with: ranges of distinct elements, so
\* that every element of a range is identified by its value
Ranges == {r \in SeqsUpTo(Elems, MaxLen) : \A i, j \in 1..Len(r) : i # j => r[i] # r[j]}
\* what the collector receives
CollectorRanges == SeqsUpTo({0, 1}, MaxLen)
\* what a free-standing event source is fired with
PortEvents == {<<0, 1>>, <<1, 2>>}

\* --------------------------------------------------- environment's callables
\* event sinks that only record what they are called with
Recorders == {"r1", "r2"}
\* intermediates (not sinks) that a connection can be chained through
Transforms == {"rev", "tail"}
\* the recording sinks connected to splitter outputs
OutputSinks == {"r1"}

Reverse(s) == [i \in 1..Len(s) |-> s[Len(s) + 1 - i]]

apply(t, v) ==
  IF t = "rev" THEN Reverse(v)
  ELSE IF v = <<>> THEN <<>> ELSE Tail(v)

\* the logical port a port value is a copy of (bookkeeping only)
SrcNode == 0
OutNode(k) == k + 1
Nodes == {SrcNode} \cup {OutNode(k) : k \in Keys}

VARIABLES
  event_handlers,   \* heap of shared handler vectors: Seq(Seq(handler))
  ports,            \* port values held by the environment: Seq([ptr, of])
  proxies,          \* event_proxy objects: Seq([source, stored_sink, ...])
  registered,       \* history: per logical port, the registrations in order
  entries,          \* list_splitter::entries: key -> [port, data]
  predicate,        \* list_splitter::predicate
  out_num_dropped,  \* list_splitter::out_num_dropped
  key_order,        \* history: keys in the order out(key) first asked for them
  buffer_collect,   \* list_collector::buffer_collect
  buffer_state,     \* list_collector::buffer_state
  received,         \* history: the ranges the collector received, in order
  window,           \* history: ranges received since the previous pull
  pulled,           \* history: the pulls, [result, window, upto]
  trace,            \* calls made by the last operation, in call order
  last,             \* the last operation: [op, port, ev]
  merge_sources,    \* current values of the state sources wired to merge_node::in_ports
  merge_result,     \* what the last call of merge_node::operator() returned
  merge_calls,      \* history: results of the last two calls, latest last
  forest,           \* forest_graph::forest: the tree in full order, one leading and
                    \* one trailing position per node
  slots,            \* what each node of the forest holds
  constructing,     \* owning nodes whose constructor is running, innermost last
  next_slot,        \* identity of the next node the forest allocates
  tree_last,        \* the last step on the tree: [op, caller, slot, region]
  sched_state,      \* cycle_control: "constructed", "working" or "destroyed"
  tasks,            \* the callables of the periodic tasks added, task i bound to store i
  val,              \* store::val of each store
  queue,            \* tasks due and not yet executed in the running cycle
  cycle,            \* cycles the scheduler has started
  executed          \* history: tasks whose callable was called

vars == <<event_handlers, ports, proxies, registered, entries, predicate,
          out_num_dropped, key_order, buffer_collect, buffer_state,
          received, window, pulled, trace, last,
          merge_sources, merge_result, merge_calls,
          forest, slots, constructing, next_slot, tree_last,
          sched_state, tasks, val, queue, cycle, executed>>

portVars == <<event_handlers, ports, proxies, registered>>
splitterVars == <<entries, predicate, out_num_dropped, key_order>>
collectorVars == <<buffer_collect, buffer_state, received, window, pulled>>
mergeVars == <<merge_sources, merge_result, merge_calls>>
\* the parts of the state that no operation on ports or list nodes touches
treeVars == <<forest, slots, constructing, next_slot, tree_last>>
schedVars == <<sched_state, tasks, val, queue, cycle, executed>>
extVars == <<mergeVars, treeVars, schedVars>>
\* ports, list nodes and merge_node together
dataflowVars == <<portVars, splitterVars, collectorVars, trace, last, mergeVars>>

\* fc::connect of a callable and a sink: the intermediates, then the sink
Handler(chain, sink) == [chain |-> chain, sink |-> sink]
NoHandler == Handler(<<>>, "")

\* ------------------------------------------------------------ trace entries
FireEv(vec, e) == [kind |-> "fire", vec |-> vec, h |-> NoHandler, who |-> "", ev |-> e]
HandlerEv(vec, h, e) == [kind |-> "handler", vec |-> vec, h |-> h, who |-> "", ev |-> e]
TransformEv(t, e) == [kind |-> "transform", vec |-> 0, h |-> NoHandler, who |-> t, ev |-> e]
SinkEv(s, e) == [kind |-> "sink", vec |-> 0, h |-> NoHandler, who |-> s, ev |-> e]
StateEv(s, v) == [kind |-> "state", vec |-> 0, h |-> NoHandler, who |-> s, ev |-> <<v>>]

Log(w, x) == [w EXCEPT !.trace = Append(@, x)]

\* the mutable state a firing can touch
World == [trace |-> <<>>, entries |-> entries, out_num_dropped |-> out_num_dropped,
          buffer_collect |-> buffer_collect]

\* ----------------------------------------------------------- list_collector
\* list_collector::receive
collector_receive_overwrite(w, range) ==
  [w EXCEPT !.buffer_collect = range]

collector_receive(w, range) ==
  [w EXCEPT !.buffer_collect = @ \o range]

\* list_collector::get_state: clear, swap, return the range over buffer_state
get_state_copy(collect, state) ==
  [buffer_collect |-> collect, buffer_state |-> collect, result |-> collect]

get_state(collect, state) ==
  LET cleared == <<>>
      swapped == [buffer_state |-> collect, buffer_collect |-> cleared]
  IN  [buffer_collect |-> swapped.buffer_collect,
       buffer_state |-> swapped.buffer_state,
       result |-> swapped.buffer_state]

\* ------------------------------------------------------------ list_splitter
RECURSIVE fire(_, _, _, _)

\* std::map iterates in ascending key order
RECURSIVE map_order_descending(_)
map_order_descending(ks) ==
  IF ks = {} THEN <<>>
  ELSE LET k == CHOOSE x \in ks : \A y \in ks : x >= y
       IN  <<k>> \o map_order_descending(ks \ {k})

RECURSIVE map_order(_)
map_order(ks) ==
  IF ks = {} THEN <<>>
  ELSE LET k == CHOOSE x \in ks : \A y \in ks : x <= y
       IN  <<k>> \o map_order(ks \ {k})

\* first loop of list_splitter::receive: sort elements by predicate
RECURSIVE sort_elements_by_first(_, _, _, _)
sort_elements_by_first(w, pred, range, i) ==
  IF i > Len(range) THEN w
  ELSE LET p == pred[range[1]]
           w1 == IF p \in DOMAIN w.entries
                 THEN [w EXCEPT !.entries[p].data = Append(@, range[i])]
                 ELSE [w EXCEPT !.out_num_dropped = @ + 1]
       IN  sort_elements_by_first(w1, pred, range, i + 1)

RECURSIVE sort_elements_count_all(_, _, _, _)
sort_elements_count_all(w, pred, range, i) ==
  IF i > Len(range) THEN w
  ELSE LET p == pred[range[i]]
           w1 == IF p \in DOMAIN w.entries
                 THEN [w EXCEPT !.entries[p].data = Append(@, range[i]),
                                !.out_num_dropped = @ + 1]
                 ELSE [w EXCEPT !.out_num_dropped = @ + 1]
       IN  sort_elements_count_all(w1, pred, range, i + 1)

RECURSIVE sort_elements(_, _, _, _)
sort_elements(w, pred, range, i) ==
  IF i > Len(range) THEN w
  ELSE LET p == pred[range[i]]
           w1 == IF p \in DOMAIN w.entries
                 THEN [w EXCEPT !.entries[p].data = Append(@, range[i])]
                 ELSE [w EXCEPT !.out_num_dropped = @ + 1]
       IN  sort_elements(w1, pred, range, i + 1)

\* one iteration of the second loop: fire the port, then clear the buffer
send_entry_no_clear(w, eh, k) ==
  fire(w, eh, w.entries[k].port.ptr, w.entries[k].data)

send_entry(w, eh, k) ==
  LET w1 == fire(w, eh, w.entries[k].port.ptr, w.entries[k].data)
  IN  [w1 EXCEPT !.entries[k].data = <<>>]

\* second loop of list_splitter::receive: send sorted elements
RECURSIVE send_sorted(_, _, _, _)
send_sorted(w, eh, order, i) ==
  IF i > Len(order) THEN w
  ELSE send_sorted(send_entry(w, eh, order[i]), eh, order, i + 1)

\* list_splitter::receive
splitter_receive(w, eh, pred, range) ==
  LET w1 == sort_elements(w, pred, range, 1)
  IN  send_sorted(w1, eh, map_order(DOMAIN w1.entries), 1)

\* -------------------------------------------------------------- event ports
\* event_in_port::operator(): call the wrapped handler
event_in_port(w, eh, s, e) ==
  LET w1 == Log(w, SinkEv(s, e))
  IN  IF s = "splitter.in" THEN splitter_receive(w1, eh, predicate, e)
      ELSE IF s = "collector.in" THEN collector_receive(w1, e)
      ELSE w1

\* calling a handler: the intermediates in chain order, then the sink
RECURSIVE connection_call(_, _, _, _, _)
connection_call(w, eh, h, i, e) ==
  IF i > Len(h.chain) THEN event_in_port(w, eh, h.sink, e)
  ELSE connection_call(Log(w, TransformEv(h.chain[i], e)), eh, h, i + 1,
                       apply(h.chain[i], e))

\* the loop of event_out_port::fire, from handler i on
RECURSIVE fire_from_deferred(_, _, _, _, _)
fire_from_deferred(w, eh, vec, i, e) ==
  IF i > Len(eh[vec]) THEN w
  ELSE LET w1 == Log(w, HandlerEv(vec, eh[vec][i], e))
       IN  connection_call(fire_from_deferred(w1, eh, vec, i + 1, e), eh, eh[vec][i], 1, e)

RECURSIVE fire_from(_, _, _, _, _)
fire_from(w, eh, vec, i, e) ==
  IF i > Len(eh[vec]) THEN w
  ELSE LET w1 == Log(w, HandlerEv(vec, eh[vec][i], e))
       IN  fire_from(connection_call(w1, eh, eh[vec][i], 1, e), eh, vec, i + 1, e)

\* event_out_port::fire
fire_skip_first(w, eh, vec, e) == fire_from(Log(w, FireEv(vec, e)), eh, vec, 2, e)

fire(w, eh, vec, e) == fire_from(Log(w, FireEv(vec, e)), eh, vec, 1, e)

\* event_out_port::connect
connect_front(eh, vec, new_handler) ==
  [eh EXCEPT ![vec] = <<new_handler>> \o @]

connect(eh, vec, new_handler) ==
  [eh EXCEPT ![vec] = Append(@, new_handler)]

\* copying an event_out_port copies the shared_ptr, not the vector
copy_port_deep(eh, port) ==
  [eh |-> Append(eh, eh[port.ptr]), port |-> [port EXCEPT !.ptr = Len(eh) + 1]]

copy_port(eh, port) == [eh |-> eh, port |-> port]

\* fc::connect of a callable and a further intermediate
connection(stored_sink, next) == Append(stored_sink, next)

out_always_inserting(ents, eh, value) ==
  LET eh1 == Append(eh, <<>>)
      ents1 == [k \in DOMAIN ents \cup {value} |->
                  IF k = value
                  THEN [port |-> [ptr |-> Len(eh1), of |-> OutNode(value)], data |-> <<>>]
                  ELSE ents[k]]
      c == copy_port(eh1, ents1[value].port)
  IN  [entries |-> ents1, eh |-> c.eh, port |-> c.port]

\* list_splitter::out: find the entry, insert it when missing, return its port
out(ents, eh, value) ==
  LET missing == value \notin DOMAIN ents
      eh1 == IF missing THEN Append(eh, <<>>) ELSE eh
      ents1 == IF missing
               THEN [k \in DOMAIN ents \cup {value} |->
                       IF k = value
                       THEN [port |-> [ptr |-> Len(eh1), of |-> OutNode(value)],
                             data |-> <<>>]
                       ELSE ents[k]]
               ELSE ents
      c == copy_port(eh1, ents1[value].port)
  IN  [entries |-> ents1, eh |-> c.eh, port |-> c.port]

\* ---------------------------------------------------------------- merge_node
\* values the state sources hold
Values == {3, 4, 5}

\* merge_result before the first call
NoResult == -1

\* the orders in which n arguments can be evaluated
Orders(n) == {o \in [1..n -> 1..n] : \A i, j \in 1..n : o[i] = o[j] => i = j}

\* the operation the node is built with: not symmetric in its arguments
RECURSIVE operation(_)
operation(args) ==
  IF args = <<>> THEN 0
  ELSE operation(SubSeq(args, 1, Len(args) - 1)) * 10 + args[Len(args)]

PullEv(i, v) == [kind |-> "pull", vec |-> i, h |-> NoHandler, who |-> "", ev |-> <<v>>]

\* state_sink::get(): pulls the value the connected source holds now
state_sink_get(sources, i) == sources[i]

invoke_helper_in_pull_order(sources, order) ==
  [trace  |-> [j \in 1..Len(sources) |-> PullEv(order[j], state_sink_get(sources, order[j]))],
   result |-> operation([j \in 1..Len(sources) |-> state_sink_get(sources, order[j])])]

invoke_helper_first_input(sources, order) ==
  [trace  |-> [j \in 1..Len(sources) |-> PullEv(order[j], state_sink_get(sources, order[j]))],
   result |-> operation([i \in 1..Len(sources) |-> state_sink_get(sources, 1)])]

\* op(std::get<index>(tup).get()...): the pulls happen in the order the
\* arguments are evaluated, the value of input i is argument i
invoke_helper(sources, order) ==
  [trace  |-> [j \in 1..Len(sources) |-> PullEv(order[j], state_sink_get(sources, order[j]))],
   result |-> operation([i \in 1..Len(sources) |-> state_sink_get(sources, i)])]

\* ------------------------------------------------------- the ownership tree
Regions == {"ra", "rb"}

\* a position of the forest: a node and the edge the iterator is on
It(n, e) == [node |-> n, edge |-> e]
leading_of(it) == It(it.node, "leading")
trailing_of(it) == It(it.node, "trailing")

\* forest.end()
forest_end == It(0, "trailing")

\* where a position lies in the full-order traversal
Pos(f, it) ==
  IF it = forest_end THEN Len(f) + 1 ELSE CHOOSE i \in 1..Len(f) : f[i] = it

\* ++it
forest_next(f, it) == IF Pos(f, it) >= Len(f) THEN forest_end ELSE f[Pos(f, it) + 1]

\* forest.insert(position, x): the new node n is linked in right before
\* position; the result is the leading position of n
forest_insert(f, position, n) ==
  [forest |-> SubSeq(f, 1, Pos(f, position) - 1)
                \o <<It(n, "leading"), It(n, "trailing")>>
                \o SubSeq(f, Pos(f, position), Len(f)),
   result |-> It(n, "leading")]

\* forest.erase(first, last): walks [first, last) keeping the depth of the
\* leading edges passed; a node is erased at its trailing edge if its
\* leading edge was passed too
RECURSIVE erase_walk(_, _, _, _)
erase_walk(f, i, j, stack_depth) ==
  IF i >= j THEN {}
  ELSE IF f[i].edge = "leading" THEN erase_walk(f, i + 1, j, stack_depth + 1)
  ELSE (IF stack_depth > 0 THEN {f[i].node} ELSE {})
         \cup erase_walk(f, i + 1, j, IF stack_depth > 0 THEN stack_depth - 1 ELSE 0)

forest_erase(f, first, last_) ==
  LET gone == erase_walk(f, Pos(f, first), Pos(f, last_), 0)
  IN  SelectSeq(f, LAMBDA t : t.node \notin gone)

erase_with_subtree_open(f, position) ==
  forest_erase(f, leading_of(position), trailing_of(position))

\* forest.erase(leading_of(position), ++trailing_of(position))
erase_with_subtree(f, position) ==
  forest_erase(f, leading_of(position), forest_next(f, trailing_of(position)))

\* owner_holder before set_owner
NoOwner == [self |-> forest_end, region |-> ""]

\* a tree_base_node held by the forest directly
PlainNode(r) == [kind |-> "node", region |-> r, owner |-> NoOwner]
\* std::make_unique<owner_holder>()
owner_holder == [kind |-> "holder", region |-> "", owner |-> NoOwner]

\* owning_base_node(self, node): self_ and the region of the new node
owning_base_node(self, r) == [self |-> self, region |-> r]

set_owner_dropped(sl, s, node) == sl

\* owner_holder::set_owner
set_owner(sl, s, node) == [sl EXCEPT ![s].owner = node]

Put(sl, n, x) == [k \in DOMAIN sl \cup {n} |-> IF k = n THEN x ELSE sl[k]]

\* add_child: the child becomes the last child of the node at self_
add_child(f, self, n) == forest_insert(f, self, n).forest

child_region_own(own, given, r) == own

\* region(): the creating node's region, or the region passed explicitly
child_region(own, given, r) == IF given THEN r ELSE own

make_owner_iter_of_caller(f, self, n) ==
  [forest |-> forest_insert(f, self, n).forest, iter |-> self]

\* step 1 of make_owner: the holder is inserted at self_, iter is its
\* trailing position
make_owner_insert(f, self, n) ==
  LET ins == forest_insert(f, self, n)
  IN  [forest |-> ins.forest, iter |-> trailing_of(ins.result)]

\* ------------------------------------------------------------ the scheduler
\* store::val as constructed
store_val == 0

make_1_keeps(v) == v

\* store::make_1
make_1(v) == 1

\* store::make_2
make_2(v) == 2

Callables == {"make_1", "make_2"}

\* the call of the callable a periodic task was built with
call(f, v) == IF f = "make_1" THEN make_1(v) ELSE make_2(v)

\* the tasks due when a cycle starts: with the minimal period, all of them
due_tasks(ts) == 1..Len(ts)

\* ------------------------------------------------ tree nodes carrying sinks
\* the node a recording sink is a member of: the first node made below the
\* root carries r1, the second r2
HostOf(s) == IF s = "r1" THEN 2 ELSE 3

\* the sinks that are members of the nodes in gone
Hosted(gone) == {s \in Recorders : HostOf(s) \in gone}

event_in_port_destroyed_unregistering(eh, sinks) ==
  [v \in DOMAIN eh |-> SelectSeq(eh[v], LAMBDA h : h.sink \notin sinks)]

\* event_in_port has no destructor of its own: destroying the sinks of an
\* erased node leaves every handler vector as it is
event_in_port_destroyed(eh, sinks) == eh

\* ------------------------------------------------------------------ Init
Predicates == {[x \in Elems |-> x], [x \in Elems |-> x % 2]}

\* value of the state source out_num_dropped after construction
initial_num_dropped == 0

\* merge_node of arity n, every input wired to a state source holding v
ConstructMerge(n, v) ==
  /\ merge_sources = [i \in 1..n |-> v]
  /\ merge_result = NoResult
  /\ merge_calls = <<>>

TreeOp(op, c, s, r) == [op |-> op, caller |-> c, slot |-> s, region |-> r, removed |-> 0]

\* forest_owner: the root owner is the only node, its self_ is the trailing
\* position of its own slot
ConstructTree ==
  /\ forest = <<It(1, "leading"), It(1, "trailing")>>
  /\ slots = [k \in {1} |-> [kind |-> "holder", region |-> "",
                              owner |-> owning_base_node(It(1, "trailing"), "ra")]]
  /\ constructing = <<>>
  /\ next_slot = 2
  /\ tree_last = TreeOp("init", 0, 0, "")

\* thread::cycle_control test_scheduler
ConstructScheduler ==
  /\ sched_state = "constructed"
  /\ tasks = <<>>
  /\ val = <<>>
  /\ queue = {}
  /\ cycle = 0
  /\ executed = {}

ConstructLists ==
  /\ event_handlers = << <<>> >>
  /\ ports = << [ptr |-> 1, of |-> SrcNode] >>
  /\ proxies = <<>>
  /\ registered = [n \in Nodes |-> <<>>]
  /\ entries = <<>>
  /\ out_num_dropped = initial_num_dropped
  /\ key_order = <<>>
  /\ buffer_collect = <<>>
  /\ buffer_state = <<>>
  /\ received = <<>>
  /\ window = <<>>
  /\ pulled = <<>>
  /\ trace = <<>>
  /\ last = [op |-> "init", port |-> 0, ev |-> <<>>]

Construct == ConstructLists /\ ConstructMerge(1, 3) /\ ConstructTree /\ ConstructScheduler

Init == Construct /\ predicate = [x \in Elems |-> x]

InitSplitter == Construct /\ predicate \in Predicates

Op(op, p, e) == [op |-> op, port |-> p, ev |-> e]

\* wiring operations performed so far
WiringSize ==
  (Len(ports) - 1) + Len(proxies) + Len(registered[SrcNode])

\* registration of a handler through a port value that was passed by value
Register(port, h, p, chain, s) ==
  LET c == copy_port(event_handlers, port)
  IN  /\ event_handlers' = connect(c.eh, c.port.ptr, h)
      /\ registered' = [registered EXCEPT ![port.of] =
             Append(@, [h |-> h, via |-> p, chain |-> chain, sink |-> s])]

\* ------------------------------------------------- actions on event ports
\* the environment copies a port value
CopyPort(p) ==
  /\ WiringSize < MaxWiring
  /\ LET c == copy_port(event_handlers, ports[p])
     IN  /\ event_handlers' = c.eh
         /\ ports' = Append(ports, c.port)
  /\ trace' = <<>>
  /\ last' = Op("copy", p, <<>>)
  /\ UNCHANGED <<extVars, proxies, registered, splitterVars, collectorVars>>

\* detail::connect_impl, event source and event sink
Connect(p, s) ==
  /\ WiringSize < MaxWiring
  /\ Register(ports[p], Handler(<<>>, s), p, <<>>, s)
  /\ trace' = <<>>
  /\ last' = Op("connect", p, <<>>)
  /\ UNCHANGED <<extVars, ports, proxies, splitterVars, collectorVars>>

\* detail::connect_impl, event source and something that is not a sink
ConnectProxy(p, t) ==
  /\ WiringSize < MaxWiring
  /\ LET c == copy_port(event_handlers, ports[p])
     IN  /\ event_handlers' = c.eh
         /\ proxies' = Append(proxies,
               [source |-> c.port, stored_sink |-> <<t>>, chain |-> <<t>>, via |-> p])
  /\ trace' = <<>>
  /\ last' = Op("proxy", p, <<>>)
  /\ UNCHANGED <<extVars, ports, registered, splitterVars, collectorVars>>

\* event_proxy::connect with something that is not a sink
ProxyConnectEager(i, t) ==
  /\ WiringSize < MaxWiring
  /\ event_handlers' = connect(event_handlers, proxies[i].source.ptr,
                               Handler(proxies[i].stored_sink, t))
  /\ proxies' = Append(proxies,
        [source |-> proxies[i].source,
         stored_sink |-> connection(proxies[i].stored_sink, t),
         chain |-> Append(proxies[i].chain, t),
         via |-> proxies[i].via])
  /\ trace' = <<>>
  /\ last' = Op("extend", i, <<>>)
  /\ UNCHANGED <<extVars, ports, registered, splitterVars, collectorVars>>

ProxyConnect(i, t) ==
  /\ WiringSize < MaxWiring
  /\ LET c == copy_port(event_handlers, proxies[i].source)
     IN  /\ event_handlers' = c.eh
         /\ proxies' = Append(proxies,
               [source |-> c.port,
                stored_sink |-> connection(proxies[i].stored_sink, t),
                chain |-> Append(proxies[i].chain, t),
                via |-> proxies[i].via])
  /\ trace' = <<>>
  /\ last' = Op("extend", i, <<>>)
  /\ UNCHANGED <<extVars, ports, registered, splitterVars, collectorVars>>

\* event_proxy::connect with a sink
ProxyConnectSink(i, s) ==
  /\ WiringSize < MaxWiring
  /\ Register(proxies[i].source, Handler(proxies[i].stored_sink, s),
              proxies[i].via, proxies[i].chain, s)
  /\ trace' = <<>>
  /\ last' = Op("terminate", i, <<>>)
  /\ UNCHANGED <<extVars, ports, proxies, splitterVars, collectorVars>>

\* the environment fires a port value
Fire(p, e) ==
  \E w \in {fire(World, event_handlers, ports[p].ptr, e)} :
      /\ trace' = w.trace
      /\ entries' = w.entries
      /\ out_num_dropped' = w.out_num_dropped
      /\ buffer_collect' = w.buffer_collect
      /\ last' = Op("fire", p, e)
      /\ UNCHANGED <<extVars, portVars, predicate, key_order, buffer_state, received, window, pulled>>

NextPorts ==
  \/ \E p \in 1..Len(ports) : CopyPort(p)
  \/ \E p \in 1..Len(ports), s \in Recorders : Connect(p, s)
  \/ \E p \in 1..Len(ports), t \in Transforms : ConnectProxy(p, t)
  \/ \E i \in 1..Len(proxies), t \in Transforms : ProxyConnect(i, t)
  \/ \E i \in 1..Len(proxies), s \in Recorders : ProxyConnectSink(i, s)
  \/ \E p \in 1..Len(ports), e \in PortEvents : Fire(p, e)

SpecPorts == Init /\ [][NextPorts]_vars

\* ---------------------------------------------- actions on the list_splitter
\* the environment asks for the output port of a key and drops the port value
Out(k) ==
  /\ k \in DOMAIN entries \/ Cardinality(DOMAIN entries) < MaxOutputs
  /\ LET r == out(entries, event_handlers, k)
     IN  /\ entries' = r.entries
         /\ event_handlers' = r.eh
  /\ key_order' = IF k \in DOMAIN entries THEN key_order ELSE Append(key_order, k)
  /\ trace' = <<>>
  /\ last' = Op("out", IF k \in DOMAIN entries THEN 1 ELSE 0, <<>>)
  /\ UNCHANGED <<extVars, ports, proxies, registered, predicate, out_num_dropped, collectorVars>>

\* connect(splitter.out(k), sink): detail::connect_impl on the returned port
OutConnect(k, s) ==
  /\ k \in DOMAIN entries \/ Cardinality(DOMAIN entries) < MaxOutputs
  /\ Len(registered[OutNode(k)]) < MaxSinks
  /\ LET r == out(entries, event_handlers, k)
         c == copy_port(r.eh, r.port)
         h == Handler(<<>>, s)
     IN  /\ entries' = r.entries
         /\ event_handlers' = connect(c.eh, c.port.ptr, h)
         /\ registered' = [registered EXCEPT ![OutNode(k)] =
               Append(@, [h |-> h, via |-> 0, chain |-> <<>>, sink |-> s])]
  /\ key_order' = IF k \in DOMAIN entries THEN key_order ELSE Append(key_order, k)
  /\ trace' = <<>>
  /\ last' = Op("out_connect", IF k \in DOMAIN entries THEN 1 ELSE 0, <<>>)
  /\ UNCHANGED <<extVars, ports, proxies, predicate, out_num_dropped, collectorVars>>

\* the splitter's input sink is called with a range
SplitterIn(range) ==
  \E w \in {event_in_port(World, event_handlers, "splitter.in", range)} :
      /\ w.out_num_dropped <= MaxDropped
      /\ trace' = w.trace
      /\ entries' = w.entries
      /\ out_num_dropped' = w.out_num_dropped
      /\ buffer_collect' = w.buffer_collect
      /\ last' = Op("in", 0, range)
      /\ UNCHANGED <<extVars, portVars, predicate, key_order, buffer_state, received, window, pulled>>

\* the state source out_num_dropped is pulled
PullNumDropped ==
  /\ trace' = <<StateEv("out_num_dropped", out_num_dropped)>>
  /\ last' = Op("pull_dropped", 0, <<>>)
  /\ UNCHANGED <<extVars, portVars, splitterVars, collectorVars>>

NextSplitter ==
  \/ \E k \in Keys : Out(k)
  \/ \E k \in Keys, s \in OutputSinks : OutConnect(k, s)
  \/ \E range \in Ranges : SplitterIn(range)
  \/ PullNumDropped

SpecSplitter == InitSplitter /\ [][NextSplitter]_vars

\* --------------------------------------------- actions on the list_collector
\* the collector's input sink is called with a range
CollectorIn(range) ==
  \E w \in {event_in_port(World, event_handlers, "collector.in", range)} :
      /\ Len(received) + Len(pulled) < MaxOps
      /\ trace' = w.trace
      /\ entries' = w.entries
      /\ out_num_dropped' = w.out_num_dropped
      /\ buffer_collect' = w.buffer_collect
      /\ received' = Append(received, range)
      /\ window' = Append(window, range)
      /\ last' = Op("collect", 0, range)
      /\ UNCHANGED <<extVars, portVars, predicate, key_order, buffer_state, pulled>>

\* the collector's state source out is pulled
CollectorPull ==
  LET r == get_state(buffer_collect, buffer_state)
  IN  /\ Len(received) + Len(pulled) < MaxOps
      /\ buffer_collect' = r.buffer_collect
      /\ buffer_state' = r.buffer_state
      /\ pulled' = Append(pulled, [result |-> r.result, window |-> window,
                                   upto |-> Len(received)])
      /\ window' = <<>>
      /\ trace' = <<>>
      /\ last' = Op("pull", 0, r.result)
      /\ UNCHANGED <<extVars, portVars, splitterVars, received>>

NextCollector ==
  \/ \E range \in CollectorRanges : CollectorIn(range)
  \/ CollectorPull

SpecCollector == Init /\ [][NextCollector]_vars


\* ------------------------------------------------- merge_node (state_nodes.hpp)
\* the environment changes the value a state source holds
SetSource(i, v) ==
  /\ i \in 1..Len(merge_sources)
  /\ merge_sources[i] # v
  /\ merge_sources' = [merge_sources EXCEPT ![i] = v]
  /\ trace' = <<>>
  /\ last' = Op("set_source", i, <<v>>)
  /\ UNCHANGED <<portVars, splitterVars, collectorVars, treeVars, schedVars, merge_result, merge_calls>>

\* merge_node::operator(): the arguments of the call of op are evaluated in
\* an order the language does not fix, so the pulls come in any order
MergeCall(order) ==
  /\ \E w \in {invoke_helper(merge_sources, order)} :
       /\ trace' = w.trace
       /\ merge_result' = w.result
       /\ merge_calls' = IF merge_calls = <<>> THEN <<w.result>>
                          ELSE <<merge_calls[Len(merge_calls)], w.result>>
  /\ last' = Op("merge", 0, <<>>)
  /\ UNCHANGED <<portVars, splitterVars, collectorVars, treeVars, schedVars, merge_sources>>

NextMerge ==
  \/ \E i \in 1..MaxArity, v \in Values : SetSource(i, v)
  \/ \E order \in Orders(Len(merge_sources)) : MergeCall(order)

InitMerge ==
  /\ ConstructLists
  /\ predicate = [x \in Elems |-> x]
  /\ \E n \in 1..MaxArity : ConstructMerge(n, 3)
  /\ ConstructTree
  /\ ConstructScheduler

SpecMerge == InitMerge /\ [][NextMerge]_vars

\* ------------------------------------------- the ownership tree (base_node.hpp)
\* the owning nodes whose member functions can be called: those a holder
\* owns, and the one whose constructor is running
IsCaller(s) ==
  \/ slots[s].kind = "holder" /\ slots[s].owner # NoOwner
  \/ constructing # <<>> /\ constructing[Len(constructing)].slot = s

\* the owning node reached through slot s
Caller(s) ==
  IF slots[s].owner # NoOwner THEN slots[s].owner
  ELSE constructing[Len(constructing)].node

\* add_child(std::make_unique<node_t>(..., tree_base_node{fg_, region, name}))
CreateChild(op, s, given, r) ==
  /\ IsCaller(s)
  /\ next_slot <= MaxNodes
  /\ forest' = add_child(forest, Caller(s).self, next_slot)
  /\ slots' = Put(slots, next_slot, PlainNode(child_region(Caller(s).region, given, r)))
  /\ next_slot' = next_slot + 1
  /\ tree_last' = TreeOp(op, s, next_slot, IF given THEN r ELSE "")
  /\ UNCHANGED <<dataflowVars, schedVars, constructing>>

MakeChild(s, given, r) == CreateChild("make_child", s, given, r)

MakeChildNamed(s, given, r) == CreateChild("make_child_named", s, given, r)

NewNode(s, given, r) == CreateChild("new_node", s, given, r)

\* make_owner, steps 1 and 2: the holder is inserted and the constructor of
\* the new node starts with iter as its self
MakeOwnerInsert(s, r) ==
  /\ IsCaller(s)
  /\ next_slot <= MaxNodes
  /\ \E ins \in {make_owner_insert(forest, Caller(s).self, next_slot)} :
       /\ forest' = ins.forest
       /\ constructing' = Append(constructing,
            [slot |-> next_slot, caller |-> s, node |-> owning_base_node(ins.iter, r)])
  /\ slots' = Put(slots, next_slot, owner_holder)
  /\ next_slot' = next_slot + 1
  /\ tree_last' = TreeOp("make_owner_insert", s, next_slot, r)
  /\ UNCHANGED <<dataflowVars, schedVars>>

\* make_owner, step 3: the constructor has returned, holder.set_owner takes
\* the node and make_owner returns
MakeOwner ==
  /\ constructing # <<>>
  /\ \E top \in {constructing[Len(constructing)]} :
       /\ slots' = set_owner(slots, top.slot, top.node)
       /\ tree_last' = TreeOp("make_owner", top.caller, top.slot, top.node.region)
  /\ constructing' = SubSeq(constructing, 1, Len(constructing) - 1)
  /\ UNCHANGED <<dataflowVars, schedVars, forest, next_slot>>

\* forest_graph::erase_with_subtree, with the destructors of the erased nodes;
\* the holder a running make_owner still refers to is not erased under it
EraseWithSubtree(position) ==
  /\ position.node \in DOMAIN slots
  /\ \A i \in 1..Len(constructing) :
       \/ Pos(forest, It(constructing[i].slot, "leading")) < Pos(forest, leading_of(position))
       \/ Pos(forest, It(constructing[i].slot, "leading")) > Pos(forest, trailing_of(position))
  /\ \E f \in {erase_with_subtree(forest, position)} :
       /\ forest' = f
       /\ slots' = [k \in {f[i].node : i \in 1..Len(f)} |-> slots[k]]
       /\ event_handlers' = event_in_port_destroyed(event_handlers,
             Hosted(DOMAIN slots \ {f[i].node : i \in 1..Len(f)}))
  /\ tree_last' = [TreeOp("erase", 0, position.node, "") EXCEPT
                     !.removed = Cardinality(DOMAIN slots) - Cardinality(DOMAIN slots')]
  /\ UNCHANGED <<ports, proxies, registered, splitterVars, collectorVars, trace, last,
                 mergeVars, schedVars, constructing, next_slot>>

NextTree ==
  \/ \E s \in DOMAIN slots : MakeChild(s, FALSE, "")
  \/ \E s \in DOMAIN slots, r \in Regions : MakeChild(s, TRUE, r)
  \/ \E s \in DOMAIN slots : MakeChildNamed(s, FALSE, "")
  \/ \E s \in DOMAIN slots, r \in Regions : MakeChildNamed(s, TRUE, r)
  \/ \E s \in DOMAIN slots : NewNode(s, FALSE, "")
  \/ \E s \in DOMAIN slots, r \in Regions : NewNode(s, TRUE, r)
  \/ \E s \in DOMAIN slots, r \in Regions : MakeOwnerInsert(s, r)
  \/ MakeOwner
  \/ \E n \in DOMAIN slots, e \in {"leading", "trailing"} : EraseWithSubtree(It(n, e))

SpecTree == Init /\ [][NextTree]_vars

\* ------------------------------ the scheduler (test_parallelscheduler.cpp)
notSchedVars == <<dataflowVars, treeVars>>

\* a store, a periodic_task bound to one of its members with the minimal
\* period, and add_task
AddTask(f) ==
  /\ sched_state = "constructed"
  /\ Len(tasks) < MaxTasks
  /\ tasks' = Append(tasks, f)
  /\ val' = Append(val, store_val)
  /\ UNCHANGED <<notSchedVars, sched_state, queue, cycle, executed>>

\* cycle_control::work(): the scheduler starts its first cycle
Work ==
  /\ sched_state = "constructed"
  /\ sched_state' = "working"
  /\ queue' = due_tasks(tasks)
  /\ cycle' = 1
  /\ UNCHANGED <<notSchedVars, tasks, val, executed>>

\* a worker thread takes a due task and calls its callable
RunTask(i) ==
  /\ sched_state = "working"
  /\ i \in queue
  /\ val' = [val EXCEPT ![i] = call(tasks[i], @)]
  /\ queue' = queue \ {i}
  /\ executed' = executed \cup {i}
  /\ UNCHANGED <<notSchedVars, sched_state, tasks, cycle>>

\* the period has passed: the next cycle starts when the running one is done
NextCycle ==
  /\ sched_state = "working"
  /\ queue = {}
  /\ cycle < MaxCycles
  /\ queue' = due_tasks(tasks)
  /\ cycle' = cycle + 1
  /\ UNCHANGED <<notSchedVars, sched_state, tasks, val, executed>>

\* sleep(1) and the end of the scope: the cycle_control is destroyed after
\* the tasks of the running cycle are done
Destroy ==
  /\ sched_state = "working"
  /\ queue = {}
  /\ sched_state' = "destroyed"
  /\ UNCHANGED <<notSchedVars, tasks, val, queue, cycle, executed>>

NextScheduler ==
  \/ \E f \in Callables : AddTask(f)
  \/ Work
  \/ \E i \in 1..MaxTasks : RunTask(i)
  \/ NextCycle
  \/ Destroy

SpecScheduler == Init /\ [][NextScheduler]_vars

\* ------------------------- an event source wired to the splitter's input
\* sinks of the free-standing source: recorders and the splitter's input
NestedSinks == Recorders \cup {"splitter.in"}

\* connect(source, sink) on the source itself
ConnectNode(s) ==
  /\ Len(registered[SrcNode]) < MaxNested
  /\ Connect(1, s)

\* source.fire(e): handlers that are the splitter's input fire its outputs
FireNested(e) ==
  /\ fire(World, event_handlers, ports[1].ptr, e).out_num_dropped <= MaxDropped
  /\ Fire(1, e)

NextNested ==
  \/ \E s \in NestedSinks : ConnectNode(s)
  \/ \E k \in Keys, s \in OutputSinks : OutConnect(k, s)
  \/ \E e \in PortEvents : FireNested(e)

SpecNested == Init /\ [][NextNested]_vars

\* ------------------------------ a tree whose nodes carry the sinks of a source
\* the node that carries the sink exists
Alive(s) ==
  /\ HostOf(s) \in DOMAIN slots
  /\ slots[HostOf(s)].kind = "holder" => slots[HostOf(s)].owner # NoOwner

\* the process has not faulted
Running == last.op # "fire_fault"

\* a step on the tree
TreeStep(A) ==
  /\ Running
  /\ A
  /\ next_slot' <= MaxHosts + 1

\* connect(source, node.sink), once for each sink
ConnectHosted(s) ==
  /\ Alive(s)
  /\ \A i \in 1..Len(registered[SrcNode]) : registered[SrcNode][i].sink # s
  /\ Connect(1, s)

\* source.fire(e). A handler whose sink went with an erased node is a call
\* through a dangling reference: it runs on the stale object, or the call
\* faults and the firing ends there
FireHosted(e, faults) ==
  IF ~faults THEN Fire(1, e)
  ELSE \E w \in {fire(World, event_handlers, ports[1].ptr, e)} :
         \E i \in 1..Len(w.trace) :
           /\ w.trace[i].kind = "sink"
           /\ ~Alive(w.trace[i].who)
           /\ \A j \in 1..(i - 1) : w.trace[j].kind = "sink" => Alive(w.trace[j].who)
           /\ trace' = SubSeq(w.trace, 1, i - 1)
           /\ last' = Op("fire_fault", 1, e)
           /\ UNCHANGED <<extVars, portVars, splitterVars, collectorVars>>

NextHosted ==
  \/ \E s \in DOMAIN slots : TreeStep(MakeChild(s, FALSE, ""))
  \/ \E s \in DOMAIN slots, r \in Regions : TreeStep(MakeChild(s, TRUE, r))
  \/ \E s \in DOMAIN slots : TreeStep(MakeChildNamed(s, FALSE, ""))
  \/ \E s \in DOMAIN slots, r \in Regions : TreeStep(MakeChildNamed(s, TRUE, r))
  \/ \E s \in DOMAIN slots : TreeStep(NewNode(s, FALSE, ""))
  \/ \E s \in DOMAIN slots, r \in Regions : TreeStep(NewNode(s, TRUE, r))
  \/ \E s \in DOMAIN slots, r \in Regions : TreeStep(MakeOwnerInsert(s, r))
  \/ TreeStep(MakeOwner)
  \/ \E n \in DOMAIN slots, e \in {"leading", "trailing"} :
       TreeStep(EraseWithSubtree(It(n, e)))
  \/ \E s \in Recorders : Running /\ ConnectHosted(s)
  \/ \E e \in PortEvents : Running /\ FireHosted(e, FALSE)
  \/ \E e \in PortEvents : Running /\ FireHosted(e, TRUE)
  \/ Running /\ PullNumDropped

SpecHosted == Init /\ [][NextHosted]_vars

\* every operation of the model
Next ==
  \/ NextPorts \/ NextSplitter \/ NextCollector \/ NextNested
  \/ NextMerge \/ NextTree \/ NextScheduler \/ NextHosted

Spec == InitSplitter /\ [][Next]_vars

\* ================================================================== claims
RECURSIVE Flatten(_)
Flatten(ss) == IF ss = <<>> THEN <<>> ELSE Head(ss) \o Flatten(Tail(ss))

RECURSIVE IsSubSeq(_, _)
IsSubSeq(a, b) ==
  IF a = <<>> THEN TRUE
  ELSE IF b = <<>> THEN FALSE
  ELSE IF Head(a) = Head(b) THEN IsSubSeq(Tail(a), Tail(b))
  ELSE IsSubSeq(a, Tail(b))

\* the value a chain of intermediates hands to its sink
RECURSIVE ChainValue(_, _)
ChainValue(chain, e) ==
  IF chain = <<>> THEN e ELSE ChainValue(Tail(chain), apply(Head(chain), e))

Calls(kind) == SelectSeq(trace, LAMBDA x : x.kind = kind)
\* the registrations made on the logical port that was fired last
FiredRegs == registered[ports[last.port].of]

\* C1: one fire(e) invokes every handler registered on the source exactly
\* once, in registration order, each with the event e, and calls no other sink.
FanOutCompleteness ==
  last.op = "fire" =>
    /\ Len(Calls("handler")) = Len(FiredRegs)
    /\ \A i \in 1..Len(FiredRegs) :
         /\ Calls("handler")[i].h = FiredRegs[i].h
         /\ Calls("handler")[i].ev = last.ev
    /\ [i \in 1..Len(Calls("sink")) |-> Calls("sink")[i].who]
         = [i \in 1..Len(FiredRegs) |-> FiredRegs[i].sink]

FanOutWitness ==
  /\ last.op = "fire"
  /\ Len(FiredRegs) >= 2
  /\ FiredRegs[1].sink # FiredRegs[2].sink
  /\ Len(Calls("sink")) = Len(FiredRegs)

\* C2: all copies of a port value see one handler list: whatever was
\* registered through any copy is visible through every copy, and a fire of
\* any copy invokes all of it.
SharedHandlerList ==
  /\ \A p \in 1..Len(ports) :
       event_handlers[ports[p].ptr]
         = [i \in 1..Len(registered[ports[p].of]) |-> registered[ports[p].of][i].h]
  /\ last.op = "fire" =>
       \A i \in 1..Len(FiredRegs) :
         \E j \in 1..Len(trace) :
           trace[j].kind = "handler" /\ trace[j].h = FiredRegs[i].h

\* a copy is fired after a handler was registered on that copy and then
\* another one on the original
SharedWitness ==
  /\ last.op = "fire"
  /\ last.port = 2
  /\ Len(FiredRegs) = 2
  /\ FiredRegs[1].via = 2
  /\ FiredRegs[2].via = 1
  /\ Len(Calls("handler")) = 2

\* C3: building or extending a proxy registers nothing; terminating it at a
\* sink registers exactly one handler on the proxy's source; a fire passes the
\* event through the intermediates in chain order, then to the sink.
ChainOrder ==
  last.op = "fire" =>
    /\ [i \in 1..Len(Calls("transform")) |-> Calls("transform")[i].who]
         = Flatten([i \in 1..Len(FiredRegs) |-> FiredRegs[i].chain])
    /\ Len(Calls("sink")) = Len(FiredRegs)
    /\ \A i \in 1..Len(FiredRegs) :
         /\ Calls("sink")[i].who = FiredRegs[i].sink
         /\ Calls("sink")[i].ev = ChainValue(FiredRegs[i].chain, last.ev)

ProxyStep ==
  /\ last'.op \in {"proxy", "extend"} => event_handlers' = event_handlers
  /\ last'.op = "terminate" =>
       LET v == proxies[last'.port].source.ptr
       IN  /\ Len(event_handlers') = Len(event_handlers)
           /\ Len(event_handlers'[v]) = Len(event_handlers[v]) + 1
           /\ \A u \in 1..Len(event_handlers) : u # v => event_handlers'[u] = event_handlers[u]
  /\ ChainOrder'

ProxyInertUntilTerminated == [][ProxyStep]_vars

ProxyWitness ==
  /\ last.op = "fire"
  /\ Len(proxies) = 2
  /\ Len(FiredRegs) = 1
  /\ FiredRegs[1].chain = <<"tail", "rev">>
  /\ last.ev = <<1, 2>>
  /\ Calls("sink")[1].ev = <<2>>

\* C4: the handler list only grows at its end: every step keeps each list as
\* a prefix of itself, and connect(source, sink) appends exactly one handler.
AppendStep ==
  /\ Len(event_handlers') >= Len(event_handlers)
  /\ \A v \in 1..Len(event_handlers) :
       /\ Len(event_handlers'[v]) >= Len(event_handlers[v])
       /\ SubSeq(event_handlers'[v], 1, Len(event_handlers[v])) = event_handlers[v]
  /\ last'.op = "connect" =>
       LET v == ports[last'.port].ptr
       IN  /\ Len(event_handlers'[v]) = Len(event_handlers[v]) + 1
           /\ event_handlers'[v][Len(event_handlers'[v])].chain = <<>>
           /\ \A u \in 1..Len(event_handlers) : u # v => event_handlers'[u] = event_handlers[u]

HandlerListAppendOnly == [][AppendStep]_vars

AppendWitness ==
  /\ last.op = "connect"
  /\ Len(event_handlers[ports[last.port].ptr]) >= 2
  /\ event_handlers[ports[last.port].ptr][1] # event_handlers[ports[last.port].ptr][2]

\* C5: every pull of the collector yields the ranges received since the
\* previous pull (or since construction), concatenated in receive order; a
\* pull with nothing received since yields the empty sequence.
CollectorWindowing ==
  \A j \in 1..Len(pulled) :
    /\ pulled[j].result = Flatten(pulled[j].window)
    /\ pulled[j].window = <<>> => pulled[j].result = <<>>

CollectorWindowWitness ==
  /\ Len(pulled) = 2
  /\ Len(pulled[1].result) = MaxLen
  /\ pulled[2].window = <<>>
  /\ pulled[2].result = <<>>

\* C6: the pulled results partition what was received: pull j yields exactly
\* the elements received after pull j-1 and before pull j, so the results in
\* pull order concatenate to everything received before the last pull.
PulledUpto(j) == IF j = 0 THEN 0 ELSE pulled[j].upto

CollectorExactlyOnce ==
  /\ \A j \in 1..Len(pulled) :
       pulled[j].result = Flatten(SubSeq(received, PulledUpto(j - 1) + 1, PulledUpto(j)))
  /\ Flatten([j \in 1..Len(pulled) |-> pulled[j].result])
       = Flatten(SubSeq(received, 1, PulledUpto(Len(pulled))))

CollectorExactlyOnceWitness ==
  /\ Len(pulled) = 1
  /\ pulled[1].upto = 2
  /\ received[1] # <<>>
  /\ received[2] # <<>>
  /\ pulled[1].result = received[1] \o received[2]

\* the splitter's output ports fired by the last operation
SplitterFires == Calls("fire")
KeyOf(vec) == CHOOSE k \in DOMAIN entries : entries[k].port.ptr = vec
KeyedBy(range, k) == SelectSeq(range, LAMBDA x : predicate[x] = k)

\* C7: one firing of the splitter's input with s fires the output port of
\* key k with exactly the elements of s the predicate maps to k, in their
\* order in s; an element whose key has no port reaches no output.
SplitterPartitioning ==
  last.op = "in" =>
    /\ \A k \in DOMAIN entries :
         \E i \in 1..Len(SplitterFires) : SplitterFires[i].vec = entries[k].port.ptr
    /\ \A i \in 1..Len(trace) :
         trace[i].kind \in {"fire", "handler"} =>
           /\ \E k \in DOMAIN entries : entries[k].port.ptr = trace[i].vec
           /\ trace[i].ev = KeyedBy(last.ev, KeyOf(trace[i].vec))
    /\ \A i \in 1..Len(trace) :
         (trace[i].kind = "sink" /\ trace[i].who \in Recorders) =>
           \E k \in DOMAIN entries :
             /\ registered[OutNode(k)] # <<>>
             /\ trace[i].ev = KeyedBy(last.ev, k)
    /\ \A n \in 1..Len(last.ev) :
         predicate[last.ev[n]] \notin DOMAIN entries =>
           \A i \in 1..Len(trace) :
             trace[i].who # "splitter.in" =>
               \A m \in 1..Len(trace[i].ev) : trace[i].ev[m] # last.ev[n]

SplitterPartitionWitness ==
  /\ last.op = "in"
  /\ last.ev = <<2, 0>>
  /\ \E i \in 1..Len(trace) :
       /\ trace[i].kind = "sink"
       /\ trace[i].who \in Recorders
       /\ trace[i].ev = <<2, 0>>

\* C8: the drop counter starts at 0, never decreases, and one firing of the
\* input raises it by the number of elements whose key has no output port.
DropStep ==
  /\ out_num_dropped' >= out_num_dropped
  /\ last'.op = "in" =>
       out_num_dropped' = out_num_dropped
         + Cardinality({n \in 1..Len(last'.ev) : predicate[last'.ev[n]] \notin DOMAIN entries})

DropAccounting == (out_num_dropped = 0) /\ [][DropStep]_vars

DropWitness ==
  /\ last.op = "in"
  /\ out_num_dropped = MaxDropped
  /\ \E n \in 1..Len(last.ev) : predicate[last.ev[n]] \notin DOMAIN entries
  /\ \E n \in 1..Len(last.ev) : predicate[last.ev[n]] \in DOMAIN entries

\* C9: between firings every per-key buffer is empty; one firing of the input
\* fires every existing output port exactly once, with elements of that
\* firing only (possibly none).
SplitterPerFiringBuffers ==
  /\ \A k \in DOMAIN entries : entries[k].data = <<>>
  /\ last.op = "in" =>
       /\ Len(SplitterFires) = Cardinality(DOMAIN entries)
       /\ \A k \in DOMAIN entries :
            Cardinality({i \in 1..Len(SplitterFires) :
                           SplitterFires[i].vec = entries[k].port.ptr}) = 1
       /\ \A i \in 1..Len(SplitterFires) : IsSubSeq(SplitterFires[i].ev, last.ev)

SplitterPerFiringWitness ==
  /\ last.op = "in"
  /\ Len(SplitterFires) = 2
  /\ \E i, j \in 1..2 : SplitterFires[i].ev = <<>> /\ SplitterFires[j].ev # <<>>
  /\ out_num_dropped > 0

\* the keys of the output ports in the order the last firing fired them
FiredKeys == [i \in 1..Len(SplitterFires) |-> KeyOf(SplitterFires[i].vec)]

\* C10 as stated: within one firing the output ports fire in the order in
\* which their keys were first requested through out(key).
OutputOrderIsInsertionOrder ==
  last.op = "in" => FiredKeys = key_order

\* C10, amended: within one firing the output ports fire in ascending order
\* of their keys, whatever the order in which out(key) first asked for them.
OutputOrderIsKeyOrder ==
  last.op = "in" =>
    /\ {FiredKeys[i] : i \in 1..Len(FiredKeys)} = DOMAIN entries
    /\ \A i, j \in 1..Len(FiredKeys) : i < j => FiredKeys[i] < FiredKeys[j]

OutputOrderWitness ==
  /\ last.op = "in"
  /\ Len(key_order) = 2
  /\ key_order[1] > key_order[2]
  /\ FiredKeys = <<key_order[2], key_order[1]>>

\* ------------------------------------------------------------ merge_node
\* the value the last call pulled from input i
PulledFrom(i) == trace[CHOOSE j \in 1..Len(trace) : trace[j].vec = i].ev[1]

\* C11 as stated: one call of a merge_node pulls input 0 first, then input
\* 1, ..., then input N-1.
MergePullsInArgumentOrder ==
  last.op = "merge" =>
    [j \in 1..Len(trace) |-> trace[j].vec] = [j \in 1..Len(merge_sources) |-> j]

\* C11 (amended): one call of a merge_node of arity N pulls each of its N
\* inputs exactly once, in some order, and returns the operation applied to
\* the pulled values with the value of input i in argument position i.
MergePullsEachOnce ==
  last.op = "merge" =>
    /\ Len(trace) = Len(merge_sources)
    /\ \A j \in 1..Len(trace) : trace[j].kind = "pull"
    /\ \A i \in 1..Len(merge_sources) :
         Cardinality({j \in 1..Len(trace) : trace[j].vec = i}) = 1
    /\ merge_result = operation([i \in 1..Len(merge_sources) |-> PulledFrom(i)])

\* a call of a merge_node of arity 2 that pulled input 1 before input 0,
\* the inputs holding different values
MergePullWitness ==
  /\ last.op = "merge"
  /\ Len(merge_sources) = 2
  /\ trace[1].vec = 2 /\ trace[2].vec = 1
  /\ merge_sources[1] # merge_sources[2]

\* C12: a merge_node caches nothing: every call returns the operation
\* applied to the values its inputs hold at that call, so after f(3,4) and
\* a change of input 0 to 5 the next call returns f(5,4).
MergeNoCaching ==
  last.op = "merge" =>
    /\ merge_result = operation(merge_sources)
    /\ merge_calls[Len(merge_calls)] = merge_result
    /\ \A j \in 1..Len(trace) : trace[j].ev = <<merge_sources[trace[j].vec]>>

\* the call after f(3,4) and a change of input 0 to 5 returned f(5,4)
MergeNoCachingWitness ==
  /\ last.op = "merge"
  /\ merge_sources = <<5, 4>>
  /\ merge_calls = <<operation(<<3, 4>>), operation(<<5, 4>>)>>
  /\ merge_result = operation(<<5, 4>>)
  /\ merge_result # operation(<<3, 4>>)

\* ------------------------------------------------------- the ownership tree
NodesOf(f) == {f[i].node : i \in 1..Len(f)}

\* n lies strictly between the two positions of m
Inside(f, n, m) ==
  /\ Pos(f, It(m, "leading")) < Pos(f, It(n, "leading"))
  /\ Pos(f, It(n, "trailing")) < Pos(f, It(m, "trailing"))

Descendants(f, m) == {n \in NodesOf(f) : Inside(f, n, m)}

\* the parents of the nodes of f from position i on, read off in one pass:
\* open holds the nodes whose leading position was passed and whose
\* trailing position was not, innermost last; 0 is the parent of a
\* top-level node
RECURSIVE ParentScan(_, _, _)
ParentScan(f, i, open) ==
  IF i > Len(f) THEN <<>>
  ELSE IF f[i].edge = "leading"
       THEN <<[node |-> f[i].node,
               parent |-> IF open = <<>> THEN 0 ELSE open[Len(open)]]>>
              \o ParentScan(f, i + 1, Append(open, f[i].node))
       ELSE ParentScan(f, i + 1, SubSeq(open, 1, Len(open) - 1))

\* the innermost node around n; 0 for a top-level node
ParentOf(f, n) ==
  LET ps == ParentScan(f, 1, <<>>)
  IN  ps[CHOOSE i \in 1..Len(ps) : ps[i].node = n].parent

\* the children of m, first to last
ChildrenOf(f, m) ==
  LET ps == SelectSeq(ParentScan(f, 1, <<>>), LAMBDA x : x.parent = m)
  IN  [i \in 1..Len(ps) |-> ps[i].node]

CreateOps == {"make_child", "make_child_named", "new_node"}

\* the region of the owning node reached through slot s
RegionOf(s) ==
  IF slots[s].owner # NoOwner THEN slots[s].owner.region
  ELSE constructing[CHOOSE i \in 1..Len(constructing) : constructing[i].slot = s].node.region

TreeShapeStep ==
  tree_last'.op \in CreateOps =>
    /\ Len(ChildrenOf(forest', tree_last'.caller)) = Len(ChildrenOf(forest, tree_last'.caller)) + 1
    /\ ChildrenOf(forest', tree_last'.caller)
         = Append(ChildrenOf(forest, tree_last'.caller), tree_last'.slot)
    /\ NodesOf(forest') = NodesOf(forest) \cup {tree_last'.slot}
    /\ slots'[tree_last'.slot].region =
         IF tree_last'.region = "" THEN RegionOf(tree_last'.caller) ELSE tree_last'.region

\* C13: each call of make_child, make_child_named or new_node on an owning
\* node gives that node exactly one more child, the new node, as its last
\* child; the child's region is the parent's unless a region was passed, and
\* then it is the region passed.
TreeShape == [][TreeShapeStep]_vars

\* the root got three children by three calls, in call order; the first
\* took the root's region, the last the region passed
TreeShapeWitness ==
  /\ tree_last = TreeOp("new_node", 1, 4, "rb")
  /\ ChildrenOf(forest, 1) = <<2, 3, 4>>
  /\ slots[2].kind = "node" /\ slots[2].region = "ra"
  /\ slots[4].region = "rb"

EraseStep ==
  tree_last'.op = "erase" =>
    \E gone \in {Descendants(forest, tree_last'.slot) \cup {tree_last'.slot}} :
        /\ tree_last'.removed = Cardinality(Descendants(forest, tree_last'.slot)) + 1
        /\ Cardinality(DOMAIN slots) - Cardinality(DOMAIN slots') = tree_last'.removed
        /\ NodesOf(forest') = NodesOf(forest) \ gone
        /\ DOMAIN slots' = DOMAIN slots \ gone
        /\ forest' = SelectSeq(forest, LAMBDA t : t.node \notin gone)
        /\ \A n \in NodesOf(forest') :
             /\ slots'[n] = slots[n]
             /\ ParentOf(forest', n) = ParentOf(forest, n)
             /\ ChildrenOf(forest', n)
                  = SelectSeq(ChildrenOf(forest, n), LAMBDA k : k \notin gone)

\* C14: erase_with_subtree on the position of a node with M descendants
\* removes that node and its M descendants, M + 1 entries, and nothing
\* else: every other node stays, holds what it held, has the same parent
\* and the same order among its siblings, and its positions stay in the
\* forest.
SubtreeErase == [][EraseStep]_vars

\* a node with a descendant was erased, a sibling of it remains under the root
SubtreeEraseWitness ==
  /\ tree_last.op = "erase"
  /\ tree_last.removed = 2
  /\ NodesOf(forest) = {1, 4}
  /\ ParentOf(forest, 4) = 1

Unassigned(sl) == {s \in DOMAIN sl : sl[s].kind = "holder" /\ sl[s].owner = NoOwner}

\* C15 as stated: no tree operation observes an owner_holder whose
\* ownership has not been assigned, the operations run while the new node
\* is constructed included.
OwnerNeverObservedUnassigned ==
  tree_last.op # "make_owner_insert" => Unassigned(slots) = {}

TwoPhaseStep ==
  /\ Unassigned(slots') = {constructing'[i].slot : i \in 1..Len(constructing')}
  /\ tree_last'.op = "make_owner_insert" =>
       /\ ChildrenOf(forest', tree_last'.caller)
            = Append(ChildrenOf(forest, tree_last'.caller), tree_last'.slot)
       /\ slots'[tree_last'.slot] = owner_holder
  /\ tree_last'.op = "make_owner" =>
       /\ tree_last'.slot \in Unassigned(slots)
       /\ slots'[tree_last'.slot].owner # NoOwner
       /\ slots'[tree_last'.slot].owner.self.node = tree_last'.slot
       /\ slots'[tree_last'.slot].owner.region = tree_last'.region
       /\ ParentOf(forest', tree_last'.slot) = tree_last'.caller
       /\ constructing = Append(constructing', constructing[Len(constructing)])

\* C15 (amended): make_owner inserts the holder as the last child of the
\* calling node, and when it returns the holder is a child of the calling
\* node and owns the constructed node; the holders without an owner are
\* exactly those of the make_owner calls that have not returned.
TwoPhaseOwnerInsertion == [][TwoPhaseStep]_vars

\* make_owner returned for a node whose constructor had made a child
TwoPhaseWitness ==
  /\ tree_last.op = "make_owner"
  /\ constructing = <<>>
  /\ \E k \in NodesOf(forest) : ParentOf(forest, k) = tree_last.slot

SelfPositionStep ==
  /\ \A s \in DOMAIN slots' : slots'[s].owner # NoOwner => slots'[s].owner.self.node = s
  /\ \A i \in 1..Len(constructing') : constructing'[i].node.self.node = constructing'[i].slot
  /\ \A s \in DOMAIN slots \cap DOMAIN slots' :
       slots[s].owner # NoOwner => slots'[s].owner = slots[s].owner
  /\ tree_last'.op \in CreateOps \cup {"make_owner_insert"} =>
       ParentOf(forest', tree_last'.slot) = tree_last'.caller

\* C16: the self-position an owning node stores names the slot that holds
\* the node, in every state reached by make_owner, make_child,
\* make_child_named, new_node and erase_with_subtree of other nodes; it
\* never changes, and the children the node creates go under that slot.
SelfPosition == [][SelfPositionStep]_vars

\* an owning node below the root made a child after another subtree was erased
SelfPositionWitness ==
  /\ tree_last.op \in CreateOps
  /\ tree_last.caller # 1
  /\ slots[tree_last.caller].owner # NoOwner
  /\ ParentOf(forest, tree_last.slot) = tree_last.caller
  /\ Cardinality(NodesOf(forest)) < next_slot - 1

RECURSIVE KeysAscending(_)
KeysAscending(S) ==
  IF S = {} THEN <<>>
  ELSE LET m == CHOOSE x \in S : \A y \in S : x <= y
       IN  <<m>> \o KeysAscending(S \ {m})

\* what one firing of the output port of key k with data d leaves in the trace
OutputRun(k, d) ==
  <<FireEv(entries[k].port.ptr, d)>>
    \o Flatten([j \in 1..Len(registered[OutNode(k)]) |->
         <<HandlerEv(entries[k].port.ptr, registered[OutNode(k)][j].h, d),
           SinkEv(registered[OutNode(k)][j].sink, d)>>])

\* what a call of handler h with e leaves in the trace when everything it
\* causes is done before it returns
HandlerRun(h, e) ==
  <<SinkEv(h.sink, e)>>
    \o (IF h.sink = "splitter.in"
        THEN LET ks == KeysAscending(DOMAIN entries)
             IN  Flatten([j \in 1..Len(ks) |->
                   OutputRun(ks[j], SelectSeq(e, LAMBDA x : predicate[x] = ks[j]))])
        ELSE <<>>)

\* C18: a firing is synchronous and depth-first: a handler of the source
\* that fires the splitter's outputs has every handler of those outputs run
\* and return before it returns, and the source's next handler starts only
\* after that.
NestedFiringDepthFirst ==
  last.op = "fire" =>
    trace = <<FireEv(ports[1].ptr, last.ev)>>
              \o Flatten([i \in 1..Len(registered[SrcNode]) |->
                   <<HandlerEv(ports[1].ptr, registered[SrcNode][i].h, last.ev)>>
                     \o HandlerRun(registered[SrcNode][i].h, last.ev)])

\* the source's first handler was the splitter's input, an output of the
\* splitter delivered elements to its handler, and then the source's second
\* handler ran
NestedFiringWitness ==
  /\ last.op = "fire"
  /\ Len(registered[SrcNode]) = 2
  /\ registered[SrcNode][1].sink = "splitter.in"
  /\ registered[SrcNode][2].sink = "r2"
  /\ \E a, b \in 1..Len(trace) :
       /\ a < b
       /\ trace[a].kind = "sink" /\ trace[a].who = "r1" /\ trace[a].ev # <<>>
       /\ trace[a - 1].kind = "handler" /\ trace[a - 1].vec # ports[1].ptr
       /\ trace[b].kind = "handler" /\ trace[b].vec = ports[1].ptr

\* ------------------------------------------------- splitter outputs, again
\* last.port of an out or out_connect step tells whether the key had its
\* entry before the call (1) or not (0)
LazyStep ==
  /\ last'.op = "in" => DOMAIN entries' = DOMAIN entries
  /\ last'.op \in {"out", "out_connect"} =>
       /\ last'.port = 0 =>
            \E k \in Keys \ DOMAIN entries :
              /\ DOMAIN entries' = DOMAIN entries \cup {k}
              /\ \A j \in DOMAIN entries : entries'[k].port.ptr # entries[j].port.ptr
       /\ last'.port = 1 => DOMAIN entries' = DOMAIN entries
       /\ \A j \in DOMAIN entries : entries'[j].port = entries[j].port
  /\ \A k \in DOMAIN entries' :
       /\ Len(event_handlers'[entries'[k].port.ptr]) = Len(registered'[OutNode(k)])
       /\ \A i \in 1..Len(registered'[OutNode(k)]) :
            event_handlers'[entries'[k].port.ptr][i] = registered'[OutNode(k)][i].h
  /\ last'.op = "in" =>
       \A k \in DOMAIN entries' :
         [i \in 1..Len(registered'[OutNode(k)]) |-> registered'[OutNode(k)][i].h]
           = LET hs == SelectSeq(trace', LAMBDA x : x.kind = "handler"
                                            /\ x.vec = entries'[k].port.ptr)
             IN  [i \in 1..Len(hs) |-> hs[i].h]

\* C19: a list_splitter has no output port until out(key) is called, and
\* receiving creates none; the first out(key) creates exactly one entry,
\* every later out(key) creates none and returns a port on the same handler
\* list, so the handlers connected through any out(key) call are all called
\* by a later firing.
LazyIdempotentOutputs == (DOMAIN entries = {}) /\ [][LazyStep]_vars

\* a handler was connected through an out(key) call made when the key
\* already had its entry, and sits on the handler list of that entry
LazyOutputsWitness ==
  /\ last.op = "out_connect"
  /\ last.port = 1
  /\ \E k \in DOMAIN entries :
       /\ Len(event_handlers[entries[k].port.ptr]) = 1
       /\ Len(registered[OutNode(k)]) = 1

\* the elements of a range whose key has no output port, or an output port
\* without a connected handler
Undelivered(range) ==
  {n \in 1..Len(range) :
     \/ predicate[range[n]] \notin DOMAIN entries
     \/ registered[OutNode(predicate[range[n]])] = <<>>}

DropCountsUnconnectedStep ==
  last'.op = "in" =>
    out_num_dropped' = out_num_dropped + Cardinality(Undelivered(last'.ev))

\* C20: out_num_dropped counts every received element whose key's output
\* port has no connected handler, and no element delivered to a connected
\* handler.
DropCountsUnconnected == (out_num_dropped = 0) /\ [][DropCountsUnconnectedStep]_vars

\* ----------------------------------------------- the tree and the port graph
DecoupledStep ==
  /\ tree_last' # tree_last =>
       /\ event_handlers' = event_handlers
       /\ ports' = ports /\ proxies' = proxies /\ registered' = registered
  /\ (last' # last \/ trace' # trace) =>
       /\ forest' = forest
       /\ slots' = slots
       /\ constructing' = constructing /\ next_slot' = next_slot

\* C21: make_child, make_child_named, make_owner, new_node and
\* erase_with_subtree leave the handler list of every event source as it
\* was, the handlers that refer to an erased node included; fire and pull
\* insert, erase and reorder no tree entry.
TreePortsDecoupled == [][DecoupledStep]_vars

\* a node was erased after a firing had called its sink, and the source
\* still lists the handler that refers to it
TreePortsDecoupledWitness ==
  /\ tree_last.op = "erase"
  /\ last.op = "fire"
  /\ \E i \in 1..Len(event_handlers[ports[1].ptr]) :
       HostOf(event_handlers[ports[1].ptr][i].sink) \notin DOMAIN slots
  /\ Len(event_handlers[ports[1].ptr]) = Len(registered[SrcNode])
====
